---- MODULE Spec2Model ----
(***************************************************************************)
(* A model of the streaming UTF-8 decoder (src/src/utf-8/decoder.h) and    *)
(* of the lazy decode view that drives it (src/src/utf-8.h).               *)
(***************************************************************************)
EXTENDS Integers, Sequences, FiniteSets, TLC

(***************************************************************************)
(* Bounds of the model.                                                    *)
(***************************************************************************)
\* Longest byte sequence fed to a decoder or wrapped by a view.
MaxLen == 4

(***************************************************************************)
(* Constants of class decoder.                                             *)
(***************************************************************************)
\* std::nullopt, the empty std::optional<unsigned long>
Nothing == -1

num_classes_ == 12
num_fsm_rows_ == 8
replacement_char_ == 65533
data_mask == 63
data_shift == 6
byte_mask == 255
\* width of unsigned long (the smallest the language allows)
ULongBits == 32

\* enum class state : uint8_t
start == 0
next1 == 1
next2 == 2
next3 == 3
next4 == 4
next5 == 5
next6 == 6
next7 == 7
error == 8

\* enum class to_deliver
nothing == "nothing"
code_point == "code_point"
deliver_error == "error"

\* Byte value -> character class, indexed from 1 (byte + 1).
char_classes_ == <<
     0,  0,  0,  0,  0,  0,  0,  0,  0,  0,  0,  0,  0,  0,  0,  0,   \* 00..0f
     0,  0,  0,  0,  0,  0,  0,  0,  0,  0,  0,  0,  0,  0,  0,  0,   \* 10..1f
     0,  0,  0,  0,  0,  0,  0,  0,  0,  0,  0,  0,  0,  0,  0,  0,   \* 20..2f
     0,  0,  0,  0,  0,  0,  0,  0,  0,  0,  0,  0,  0,  0,  0,  0,   \* 30..3f
     0,  0,  0,  0,  0,  0,  0,  0,  0,  0,  0,  0,  0,  0,  0,  0,   \* 40..4f
     0,  0,  0,  0,  0,  0,  0,  0,  0,  0,  0,  0,  0,  0,  0,  0,   \* 50..5f
     0,  0,  0,  0,  0,  0,  0,  0,  0,  0,  0,  0,  0,  0,  0,  0,   \* 60..6f
     0,  0,  0,  0,  0,  0,  0,  0,  0,  0,  0,  0,  0,  0,  0,  0,   \* 70..7f
     1,  1,  1,  1,  1,  1,  1,  1,  1,  1,  1,  1,  1,  1,  1,  1,   \* 80..8f
     9,  9,  9,  9,  9,  9,  9,  9,  9,  9,  9,  9,  9,  9,  9,  9,   \* 90..9f
     7,  7,  7,  7,  7,  7,  7,  7,  7,  7,  7,  7,  7,  7,  7,  7,   \* a0..af
     7,  7,  7,  7,  7,  7,  7,  7,  7,  7,  7,  7,  7,  7,  7,  7,   \* b0..bf
     8,  8,  2,  2,  2,  2,  2,  2,  2,  2,  2,  2,  2,  2,  2,  2,   \* c0..cf
     2,  2,  2,  2,  2,  2,  2,  2,  2,  2,  2,  2,  2,  2,  2,  2,   \* d0..df
    10,  3,  3,  3,  3,  3,  3,  3,  3,  3,  3,  3,  3,  4,  3,  3,   \* e0..ef
    11,  6,  6,  6,  5,  8,  8,  8,  8,  8,  8,  8,  8,  8,  8,  8    \* f0..ff
>>

\* (state, character class) -> next state, row-major, indexed from 1.
fsm_ == <<
    start, error, next1, next2, next4, next7,   \* start
    next6, error, error, error, next3, next5,   \* start
    error, start, error, error, error, error,   \* next1
    error, start, error, start, error, error,   \* next1
    error, next1, error, error, error, error,   \* next2
    error, next1, error, next1, error, error,   \* next2
    error, error, error, error, error, error,   \* next3
    error, next1, error, error, error, error,   \* next3
    error, next1, error, error, error, error,   \* next4
    error, error, error, next1, error, error,   \* next4
    error, error, error, error, error, error,   \* next5
    error, next2, error, next2, error, error,   \* next5
    error, next2, error, error, error, error,   \* next6
    error, next2, error, next2, error, error,   \* next6
    error, next2, error, error, error, error,   \* next7
    error, error, error, error, error, error    \* next7
>>

(***************************************************************************)
(* Bit operations on naturals.                                             *)
(***************************************************************************)
RECURSIVE BitAnd(_, _)
BitAnd(a, b) ==
    IF a = 0 \/ b = 0 THEN 0
    ELSE (IF a % 2 = 1 /\ b % 2 = 1 THEN 1 ELSE 0) + 2 * BitAnd(a \div 2, b \div 2)

RECURSIVE BitOr(_, _)
BitOr(a, b) ==
    IF a = 0 THEN b
    ELSE IF b = 0 THEN a
    ELSE (IF a % 2 = 1 \/ b % 2 = 1 THEN 1 ELSE 0) + 2 * BitOr(a \div 2, b \div 2)

ShiftRight(a, n) == a \div (2 ^ n)

\* a << n on an unsigned long: bits shifted past the width are dropped
ShiftLeft(a, n) == (a % (2 ^ (ULongBits - n))) * (2 ^ n)

(***************************************************************************)
(* class decoder: a decoder object is a record of its three fields.        *)
(***************************************************************************)
\* decoder{}: code_{}, state_{state::start}, to_deliver_{}
NewDecoder == [code_ |-> 0, state_ |-> start, to_deliver_ |-> nothing]

\* char_classes_.at(byte), with C0 and C1 taken for lead bytes of two bytes
char_class_overlong(byte) ==
    IF byte \in 192..193 THEN 2 ELSE char_classes_[byte + 1]

\* char_classes_.at(byte)
char_class(byte) == char_classes_[byte + 1]

\* next_state with the second byte of ED not confined to 80..9F
next_state_surrogates(s, type) ==
    IF s = next4 /\ type = 7 THEN next1 ELSE fsm_[s * num_classes_ + type + 1]

\* next_state with the second byte of F4 taken for the last but one
next_state_short_f4(s, type) ==
    IF s = next7 /\ type = 1 THEN next1 ELSE fsm_[s * num_classes_ + type + 1]

next_state(s, type) == fsm_[s * num_classes_ + type + 1]

\* start_byte_payload with a mask one bit too narrow
start_byte_payload_narrow(byte, type) ==
    BitAnd(byte, ShiftRight(byte_mask, type + 1))

start_byte_payload(byte, type) == BitAnd(byte, ShiftRight(byte_mask, type))

\* interrupted with an interrupting ASCII byte not left pending
interrupted_ascii_dropped(dec, byte, type) ==
    LET restart == next_state(start, type)
    IN  IF restart = error
        THEN [d |-> [dec EXCEPT !.state_ = start, !.to_deliver_ = deliver_error],
              ret |-> replacement_char_]
        ELSE [d |-> [dec EXCEPT !.state_ = restart,
                                !.code_ = start_byte_payload(byte, type)],
              ret |-> replacement_char_]

\* interrupted with the U+FFFD of an invalid interrupting byte not left pending
interrupted_error_dropped(dec, byte, type) ==
    LET restart == next_state(start, type)
    IN  IF restart = error
        THEN [d |-> [dec EXCEPT !.state_ = start], ret |-> replacement_char_]
        ELSE IF restart = start
        THEN [d |-> [dec EXCEPT !.state_ = restart,
                                !.code_ = start_byte_payload(byte, type),
                                !.to_deliver_ = code_point],
              ret |-> replacement_char_]
        ELSE [d |-> [dec EXCEPT !.state_ = restart,
                                !.code_ = start_byte_payload(byte, type)],
              ret |-> replacement_char_]

\* interrupted with the decoder reset to Start whatever the interrupting byte
interrupted_no_restart(dec, byte, type) ==
    LET restart == next_state(start, type)
    IN  IF restart = error
        THEN [d |-> [dec EXCEPT !.state_ = start, !.to_deliver_ = deliver_error],
              ret |-> replacement_char_]
        ELSE IF restart = start
        THEN [d |-> [dec EXCEPT !.state_ = start,
                                !.code_ = start_byte_payload(byte, type),
                                !.to_deliver_ = code_point],
              ret |-> replacement_char_]
        ELSE [d |-> [dec EXCEPT !.state_ = start,
                                !.code_ = start_byte_payload(byte, type)],
              ret |-> replacement_char_]

\* interrupted with the accumulator not restarted by an interrupting lead byte
interrupted_stale_code(dec, byte, type) ==
    LET restart == next_state(start, type)
    IN  IF restart = error
        THEN [d |-> [dec EXCEPT !.state_ = start, !.to_deliver_ = deliver_error],
              ret |-> replacement_char_]
        ELSE IF restart = start
        THEN [d |-> [dec EXCEPT !.state_ = restart,
                                !.code_ = start_byte_payload(byte, type),
                                !.to_deliver_ = code_point],
              ret |-> replacement_char_]
        ELSE [d |-> [dec EXCEPT !.state_ = restart], ret |-> replacement_char_]

\* interrupted with the state the invalid interrupting byte leads to kept
interrupted_keeps_error(dec, byte, type) ==
    LET restart == next_state(start, type)
    IN  IF restart = start
        THEN [d |-> [dec EXCEPT !.state_ = restart,
                                !.code_ = start_byte_payload(byte, type),
                                !.to_deliver_ = code_point],
              ret |-> replacement_char_]
        ELSE IF restart = error
        THEN [d |-> [dec EXCEPT !.state_ = restart, !.to_deliver_ = deliver_error],
              ret |-> replacement_char_]
        ELSE [d |-> [dec EXCEPT !.state_ = restart,
                                !.code_ = start_byte_payload(byte, type)],
              ret |-> replacement_char_]

\* interrupted with the payload of an interrupting lead byte left pending
interrupted_pending_lead(dec, byte, type) ==
    LET restart == next_state(start, type)
    IN  IF restart = error
        THEN [d |-> [dec EXCEPT !.state_ = start, !.to_deliver_ = deliver_error],
              ret |-> replacement_char_]
        ELSE [d |-> [dec EXCEPT !.state_ = restart,
                                !.code_ = start_byte_payload(byte, type),
                                !.to_deliver_ = code_point],
              ret |-> replacement_char_]

\* interrupted that reports nothing when a lead byte takes over
interrupted_silent_lead(dec, byte, type) ==
    LET restart == next_state(start, type)
    IN  IF restart = error
        THEN [d |-> [dec EXCEPT !.state_ = start, !.to_deliver_ = deliver_error],
              ret |-> replacement_char_]
        ELSE IF restart = start
        THEN [d |-> [dec EXCEPT !.state_ = restart,
                                !.code_ = start_byte_payload(byte, type),
                                !.to_deliver_ = code_point],
              ret |-> replacement_char_]
        ELSE [d |-> [dec EXCEPT !.state_ = restart,
                                !.code_ = start_byte_payload(byte, type)],
              ret |-> Nothing]


\* decode(byte) when a byte interrupts a sequence in progress: the switch on
\* the state the byte leads to from Start
interrupted(dec, byte, type) ==
    LET restart == next_state(start, type)
    IN  IF restart = error
        THEN [d |-> [dec EXCEPT !.state_ = start, !.to_deliver_ = deliver_error],
              ret |-> replacement_char_]
        ELSE IF restart = start
        THEN [d |-> [dec EXCEPT !.state_ = restart,
                                !.code_ = start_byte_payload(byte, type),
                                !.to_deliver_ = code_point],
              ret |-> replacement_char_]
        ELSE [d |-> [dec EXCEPT !.state_ = restart,
                                !.code_ = start_byte_payload(byte, type)],
              ret |-> replacement_char_]

\* decode that adds a continuation byte to the accumulator unmasked
decode_unmasked(dec, byte) ==
    LET type == char_class(byte)
        new_state == next_state(dec.state_, type)
        cleared == [dec EXCEPT !.to_deliver_ = nothing]
    IN  IF new_state = error
        THEN IF dec.state_ = start
             THEN [d |-> cleared, ret |-> replacement_char_]
             ELSE interrupted(cleared, byte, type)
        ELSE LET code == IF dec.state_ = start
                         THEN start_byte_payload(byte, type)
                         ELSE BitOr(ShiftLeft(dec.code_, data_shift), byte)
             IN  [d |-> [cleared EXCEPT !.code_ = code, !.state_ = new_state],
                  ret |-> IF new_state = start THEN code ELSE Nothing]


\* decode that shifts a byte at Start into what the accumulator holds
decode_stale_code(dec, byte) ==
    LET type == char_class(byte)
        new_state == next_state(dec.state_, type)
        cleared == [dec EXCEPT !.to_deliver_ = nothing]
    IN  IF new_state = error
        THEN IF dec.state_ = start
             THEN [d |-> cleared, ret |-> replacement_char_]
             ELSE interrupted(cleared, byte, type)
        ELSE LET code == IF dec.state_ = start
                         THEN BitOr(ShiftLeft(dec.code_, data_shift),
                                    start_byte_payload(byte, type))
                         ELSE BitOr(ShiftLeft(dec.code_, data_shift), BitAnd(byte, data_mask))
             IN  [d |-> [cleared EXCEPT !.code_ = code, !.state_ = new_state],
                  ret |-> IF new_state = start THEN code ELSE Nothing]


\* decode(byte) without the reset of to_deliver_ it starts with
decode_keeps_pending(dec, byte) ==
    LET type == char_class(byte)
        new_state == next_state(dec.state_, type)
    IN  IF new_state = error
        THEN IF dec.state_ = start
             THEN [d |-> dec, ret |-> replacement_char_]
             ELSE interrupted(dec, byte, type)
        ELSE LET code == IF dec.state_ = start
                         THEN start_byte_payload(byte, type)
                         ELSE BitOr(ShiftLeft(dec.code_, data_shift), BitAnd(byte, data_mask))
             IN  [d |-> [dec EXCEPT !.code_ = code, !.state_ = new_state],
                  ret |-> IF new_state = start THEN code ELSE Nothing]

\* decode(byte): the decoder afterwards (d) and the returned optional (ret)
decode(dec, byte) ==
    LET type == char_class(byte)
        new_state == next_state(dec.state_, type)
        cleared == [dec EXCEPT !.to_deliver_ = nothing]
    IN  IF new_state = error
        THEN IF dec.state_ = start
             THEN [d |-> cleared, ret |-> replacement_char_]
             ELSE interrupted(cleared, byte, type)
        ELSE LET code == IF dec.state_ = start
                         THEN start_byte_payload(byte, type)
                         ELSE BitOr(ShiftLeft(dec.code_, data_shift), BitAnd(byte, data_mask))
             IN  [d |-> [cleared EXCEPT !.code_ = code, !.state_ = new_state],
                  ret |-> IF new_state = start THEN code ELSE Nothing]

\* fetch that leaves the pending output in place
fetch_keeps_pending(dec) ==
    [d |-> dec,
     ret |-> IF dec.to_deliver_ = code_point THEN dec.code_
             ELSE IF dec.to_deliver_ = deliver_error THEN replacement_char_
             ELSE Nothing]

\* fetch that clears the accumulator with the pending slot
fetch_clears_code(dec) ==
    [d |-> [dec EXCEPT !.to_deliver_ = nothing, !.code_ = 0],
     ret |-> IF dec.to_deliver_ = code_point THEN dec.code_
             ELSE IF dec.to_deliver_ = deliver_error THEN replacement_char_
             ELSE Nothing]

\* fetch(): the decoder afterwards (d) and the returned optional (ret)
fetch(dec) ==
    [d |-> [dec EXCEPT !.to_deliver_ = nothing],
     ret |-> IF dec.to_deliver_ = code_point THEN dec.code_
             ELSE IF dec.to_deliver_ = deliver_error THEN replacement_char_
             ELSE Nothing]

\* check_last_error that reports an error only when an output is pending
check_last_error_pending(dec) ==
    [d |-> dec,
     ret |-> IF dec.to_deliver_ # nothing THEN replacement_char_ ELSE Nothing]

\* check_last_error that consumes the error it reports
check_last_error_resets(dec) ==
    [d |-> [dec EXCEPT !.state_ = start],
     ret |-> IF dec.state_ # start THEN replacement_char_ ELSE Nothing]

\* check_last_error() const: the decoder afterwards (d) and the returned optional (ret)
check_last_error(dec) ==
    [d |-> dec,
     ret |-> IF dec.state_ # start THEN replacement_char_ ELSE Nothing]

(***************************************************************************)
(* State.                                                                  *)
(***************************************************************************)
VARIABLES
    decoder_,   \* the decoder object: code_, state_, to_deliver_
    before,     \* the decoder object as it was when the last call was made
    bytes,      \* the bytes passed to decode so far, in call order
    op,         \* the member function called last: "new", "decode", "fetch", "check"
    ret,        \* the optional that call returned
    fetched,    \* fetch has been called since the last decode
    yielded,    \* the values returned by the last decode and the fetches after it
    pc,         \* position of the caller that drives the decoder over a sequence
    out,        \* the code points that caller has collected
    scalars,    \* the code points whose encodings the caller decodes
    todo,       \* the bytes of the current encoding not yet decoded
    view_,      \* decode_view: the bytes of the underlying range
    it_,        \* iterator: position in view_, from 1; Len(view_) + 1 is end_
    code_,      \* iterator: the code point it exposes
    has_last_error_,    \* iterator: it exposes the U+FFFD of check_last_error
    advances,   \* the number of times the caller has advanced the iterator
    quiet,      \* the number of decode calls in a row that returned nothing
    busy,       \* the number of decode calls in a row that left a sequence in progress
    other,      \* a second decoder object, made while the first was in state Start
    other_ret   \* the optional the last decode call on the second decoder returned

vars == <<decoder_, before, bytes, op, ret, fetched, yielded, pc, out, scalars, todo,
          view_, it_, code_, has_last_error_, advances, quiet, busy,
          other, other_ret>>

\* the variables of the decode view, of its iterator but the decoder in it,
\* and of the loop that traverses it
viewVars == <<view_, it_, code_, has_last_error_, advances>>

\* the counters of a caller that decodes a stream of bytes without end, and
\* the second decoder it feeds the same bytes
streamVars == <<quiet, busy, other, other_ret>>

\* The byte values the callers draw from: every character class, and for each
\* class the values at which the well-formed ranges begin or end.
Bytes == {36, 143, 159, 191, 192, 194, 224, 225, 237, 240, 241, 244, 255}

Byte == 0..255

\* an optional with a value appended to a sequence, an empty one not
Push(seq, r) == IF r = Nothing THEN seq ELSE Append(seq, r)

\* the caller calls decoder.decode(byte)
CallDecode(byte) ==
    LET r == decode(decoder_, byte)
    IN  /\ decoder_' = r.d
        /\ before' = decoder_
        /\ ret' = r.ret
        /\ yielded' = Push(<<>>, r.ret)
        /\ bytes' = Append(bytes, byte)
        /\ op' = "decode"
        /\ fetched' = FALSE

\* the caller calls decoder.fetch()
CallFetch ==
    LET r == fetch(decoder_)
    IN  /\ decoder_' = r.d
        /\ before' = decoder_
        /\ ret' = r.ret
        /\ yielded' = Push(yielded, r.ret)
        /\ op' = "fetch"
        /\ fetched' = TRUE
        /\ UNCHANGED bytes

\* the caller calls decoder.check_last_error()
CallCheckLastError ==
    LET r == check_last_error(decoder_)
    IN  /\ decoder_' = r.d
        /\ before' = decoder_
        /\ ret' = r.ret
        /\ op' = "check"
        /\ UNCHANGED <<bytes, fetched, yielded>>

Fresh ==
    /\ decoder_ = NewDecoder
    /\ before = NewDecoder
    /\ bytes = <<>>
    /\ op = "new"
    /\ ret = Nothing
    /\ fetched = FALSE
    /\ yielded = <<>>
    /\ out = <<>>
    /\ scalars = <<>>
    /\ todo = <<>>
    /\ it_ = 1
    /\ code_ = 0
    /\ has_last_error_ = FALSE
    /\ advances = 0
    /\ quiet = 0
    /\ busy = 0
    /\ other = NewDecoder
    /\ other_ret = Nothing

(***************************************************************************)
(* A caller that calls the three member functions in any order.            *)
(***************************************************************************)
Init == Fresh /\ view_ = <<>> /\ pc = "any"

Decode(byte) ==
    /\ Len(bytes) < MaxLen
    /\ CallDecode(byte)
    /\ UNCHANGED <<pc, out, scalars, todo, viewVars, streamVars>>

Fetch ==
    /\ CallFetch
    /\ UNCHANGED <<pc, out, scalars, todo, viewVars, streamVars>>

CheckLastError ==
    /\ CallCheckLastError
    /\ UNCHANGED <<pc, out, scalars, todo, viewVars, streamVars>>

Next ==
    \/ \E byte \in Bytes : Decode(byte)
    \/ Fetch
    \/ CheckLastError

Spec == Init /\ [][Next]_vars

(***************************************************************************)
(* A caller that decodes a stream of bytes without end, fetching as it     *)
(* likes; it counts the decode calls in a row that returned nothing and    *)
(* those that left the decoder in the middle of a sequence.  While the     *)
(* decoder is in state Start the caller may make a second decoder, which   *)
(* it then feeds the same bytes.                                           *)
(***************************************************************************)
MaxBusy == 5

InitStream == Fresh /\ view_ = <<>> /\ pc = "stream"

StreamDecode(byte) ==
    LET r == decode(decoder_, byte)
    IN  /\ busy < MaxBusy
        /\ decoder_' = r.d
        /\ before' = decoder_
        /\ ret' = r.ret
        /\ op' = "decode"
        /\ quiet' = IF r.ret = Nothing THEN quiet + 1 ELSE 0
        /\ busy' = IF r.d.state_ = start THEN 0 ELSE busy + 1
        /\ other' = decode(other, byte).d
        /\ other_ret' = decode(other, byte).ret
        /\ UNCHANGED <<bytes, fetched, yielded, pc, out, scalars, todo, viewVars>>

StreamFetch ==
    LET r == fetch(decoder_)
    IN  /\ decoder_' = r.d
        /\ before' = decoder_
        /\ ret' = r.ret
        /\ op' = "fetch"
        /\ UNCHANGED <<bytes, fetched, yielded, pc, out, scalars, todo, viewVars, streamVars>>

\* utf8::decoder other{}, made while the first decoder is in state Start
StreamNew ==
    /\ decoder_.state_ = start
    /\ other # NewDecoder
    /\ other' = NewDecoder
    /\ other_ret' = Nothing
    /\ op' = "new"
    /\ UNCHANGED <<decoder_, before, ret, quiet, busy, bytes, fetched, yielded, pc, out,
                   scalars, todo, viewVars>>

NextStream ==
    \/ \E byte \in Bytes : StreamDecode(byte)
    \/ StreamFetch
    \/ StreamNew

SpecStream == InitStream /\ [][NextStream]_vars

(***************************************************************************)
(* The driver of the decoder tests: decode then fetch on every byte, and   *)
(* check_last_error once after the last byte.                              *)
(***************************************************************************)
InitDriver == Fresh /\ view_ = <<>> /\ pc = "decode"

DriverDecode(byte) ==
    /\ pc = "decode"
    /\ Len(bytes) < MaxLen
    /\ CallDecode(byte)
    /\ out' = Push(out, ret')
    /\ pc' = "fetch"
    /\ UNCHANGED <<scalars, todo, viewVars, streamVars>>

DriverFetch ==
    /\ pc = "fetch"
    /\ CallFetch
    /\ out' = Push(out, ret')
    /\ pc' = "decode"
    /\ UNCHANGED <<scalars, todo, viewVars, streamVars>>

DriverEnd ==
    /\ pc = "decode"
    /\ CallCheckLastError
    /\ out' = Push(out, ret')
    /\ pc' = "done"
    /\ UNCHANGED <<scalars, todo, viewVars, streamVars>>

NextDriver ==
    \/ \E byte \in Bytes : DriverDecode(byte)
    \/ DriverFetch
    \/ DriverEnd

SpecDriver == InitDriver /\ [][NextDriver]_vars

(***************************************************************************)
(* The same driver fed with the UTF-8 encodings of code points, as the     *)
(* tests feed it the bytes of string literals.                             *)
(***************************************************************************)
\* Number of code points decoded in a row.
MaxScalars == 2

\* The code points of the tests: the first and the last of each encoded
\* length, the neighbours of the surrogates, non-characters, and U+FFFD.
ScalarSamples ==
    {0, 36, 97, 127, 128, 163, 1048, 2047, 2048, 2361, 4095, 4096, 8364,
     53248, 54620, 55295, 57344, 64976, 65007, 65533, 65534, 65535,
     65536, 66376, 131070, 262143, 262144, 720895, 1048576, 1114110, 1114111}

\* the UTF-8 encoding of a code point
Encode(c) ==
    IF c < 128 THEN <<c>>
    ELSE IF c < 2048 THEN <<192 + (c \div 64), 128 + (c % 64)>>
    ELSE IF c < 65536
    THEN <<224 + (c \div 4096), 128 + ((c \div 64) % 64), 128 + (c % 64)>>
    ELSE <<240 + (c \div 262144), 128 + ((c \div 4096) % 64),
           128 + ((c \div 64) % 64), 128 + (c % 64)>>

InitScalar == Fresh /\ view_ = <<>> /\ pc = "pick"

PickScalar(c) ==
    /\ pc = "pick"
    /\ Len(scalars) < MaxScalars
    /\ scalars' = Append(scalars, c)
    /\ todo' = Encode(c)
    /\ pc' = "decode"
    /\ UNCHANGED <<decoder_, before, bytes, op, ret, fetched, yielded, out, viewVars, streamVars>>

ScalarDecode ==
    /\ pc = "decode"
    /\ CallDecode(Head(todo))
    /\ todo' = Tail(todo)
    /\ out' = Push(out, ret')
    /\ pc' = "fetch"
    /\ UNCHANGED <<scalars, viewVars, streamVars>>

ScalarFetch ==
    /\ pc = "fetch"
    /\ CallFetch
    /\ out' = Push(out, ret')
    /\ pc' = IF todo = <<>> THEN "pick" ELSE "decode"
    /\ UNCHANGED <<scalars, todo, viewVars, streamVars>>

ScalarEnd ==
    /\ pc = "pick"
    /\ CallCheckLastError
    /\ out' = Push(out, ret')
    /\ pc' = "done"
    /\ UNCHANGED <<scalars, todo, viewVars, streamVars>>

NextScalar ==
    \/ \E c \in ScalarSamples : PickScalar(c)
    \/ ScalarDecode
    \/ ScalarFetch
    \/ ScalarEnd

SpecScalar == InitScalar /\ [][NextScalar]_vars

(***************************************************************************)
(* The same driver fed one byte, of any value 00..FF, as the tests of      *)
(* single bytes feed a decoder.                                            *)
(***************************************************************************)
InitEveryByte ==
    /\ decoder_ = NewDecoder
    /\ before = NewDecoder
    /\ bytes = <<>>
    /\ op = "new"
    /\ ret = Nothing
    /\ fetched = FALSE
    /\ yielded = <<>>
    /\ out = <<>>
    /\ scalars = <<>>
    /\ todo \in {<<b>> : b \in Byte}
    /\ it_ = 1
    /\ code_ = 0
    /\ has_last_error_ = FALSE
    /\ advances = 0
    /\ quiet = 0
    /\ busy = 0
    /\ other = NewDecoder
    /\ other_ret = Nothing
    /\ view_ = <<>>
    /\ pc = "decode"

NextEveryByte ==
    \/ ScalarDecode
    \/ ScalarFetch
    \/ ScalarEnd

SpecEveryByte == InitEveryByte /\ [][NextEveryByte]_vars

(***************************************************************************)
(* decode_view and its iterator (src/src/utf-8.h), traversed from begin()  *)
(* to end() by a loop that collects every dereferenced value.              *)
(***************************************************************************)
\* the iterator object, a record of its fields
Iterator ==
    [it_ |-> it_, decoder_ |-> decoder_, code_ |-> code_,
     has_last_error_ |-> has_last_error_]

\* end_, the sentinel of the underlying range
end_(view) == Len(view) + 1

\* the while loop of iterator::decode(): the position and the decoder it
\* ends with, the last optional decode returned, the bytes it passed to decode
RECURSIVE decode_loop(_, _, _, _)
decode_loop(view, it, dec, fed) ==
    IF it = end_(view)
    THEN [it_ |-> it, decoder_ |-> dec, code |-> Nothing, fed |-> fed]
    ELSE LET r == decode(dec, view[it])
         IN  IF r.ret # Nothing
             THEN [it_ |-> it, decoder_ |-> r.d, code |-> r.ret,
                   fed |-> Append(fed, view[it])]
             ELSE decode_loop(view, it + 1, r.d, Append(fed, view[it]))

\* iterator::decode() that takes the end of the range for an error
iterator_decode_always_flags(view, i) ==
    LET l == decode_loop(view, i.it_, i.decoder_, <<>>)
    IN  IF l.it_ = end_(view)
        THEN [i |-> [it_ |-> l.it_, decoder_ |-> l.decoder_, code_ |-> replacement_char_,
                     has_last_error_ |-> TRUE],
              fed |-> l.fed]
        ELSE [i |-> [i EXCEPT !.it_ = l.it_, !.decoder_ = l.decoder_, !.code_ = l.code],
              fed |-> l.fed]


\* iterator::decode() without the check_last_error of an exhausted range
iterator_decode_no_check(view, i) ==
    LET l == decode_loop(view, i.it_, i.decoder_, <<>>)
    IN  IF l.it_ = end_(view)
        THEN [i |-> [i EXCEPT !.it_ = l.it_, !.decoder_ = l.decoder_], fed |-> l.fed]
        ELSE [i |-> [i EXCEPT !.it_ = l.it_, !.decoder_ = l.decoder_, !.code_ = l.code],
              fed |-> l.fed]

\* iterator::decode(): the iterator afterwards (i), the bytes decoded (fed)
iterator_decode(view, i) ==
    LET l == decode_loop(view, i.it_, i.decoder_, <<>>)
        c == check_last_error(l.decoder_)
    IN  IF l.it_ = end_(view)
        THEN IF c.ret # Nothing
             THEN [i |-> [it_ |-> l.it_, decoder_ |-> c.d, code_ |-> c.ret,
                          has_last_error_ |-> TRUE],
                   fed |-> l.fed]
             ELSE [i |-> [i EXCEPT !.it_ = l.it_, !.decoder_ = c.d], fed |-> l.fed]
        ELSE [i |-> [i EXCEPT !.it_ = l.it_, !.decoder_ = l.decoder_, !.code_ = l.code],
              fed |-> l.fed]

\* try_decode_one_code_point that goes on to the next byte without fetch
try_decode_one_code_point_no_fetch(view, i) ==
    iterator_decode(view,
        [i EXCEPT !.it_ = IF i.it_ # end_(view) THEN i.it_ + 1 ELSE i.it_])

\* try_decode_one_code_point that decodes again from where it stands
try_decode_one_code_point_no_inc(view, i) ==
    LET f == fetch(i.decoder_)
    IN  IF f.ret # Nothing
        THEN [i |-> [i EXCEPT !.decoder_ = f.d, !.code_ = f.ret], fed |-> <<>>]
        ELSE iterator_decode(view, [i EXCEPT !.decoder_ = f.d])


\* try_decode_one_code_point that moves on after exposing a pending output
try_decode_one_code_point_skips(view, i) ==
    LET f == fetch(i.decoder_)
    IN  IF f.ret # Nothing
        THEN [i |-> [i EXCEPT !.decoder_ = f.d, !.code_ = f.ret,
                              !.it_ = IF i.it_ # end_(view) THEN i.it_ + 1 ELSE i.it_],
              fed |-> <<>>]
        ELSE iterator_decode(view,
                 [i EXCEPT !.decoder_ = f.d,
                           !.it_ = IF i.it_ # end_(view) THEN i.it_ + 1 ELSE i.it_])


\* iterator::try_decode_one_code_point()
try_decode_one_code_point(view, i) ==
    LET f == fetch(i.decoder_)
    IN  IF f.ret # Nothing
        THEN [i |-> [i EXCEPT !.decoder_ = f.d, !.code_ = f.ret], fed |-> <<>>]
        ELSE iterator_decode(view,
                 [i EXCEPT !.decoder_ = f.d,
                           !.it_ = IF i.it_ # end_(view) THEN i.it_ + 1 ELSE i.it_])

\* operator++ that pulls again even when the final U+FFFD is exposed
operator_inc_ignores_flag(view, i) == try_decode_one_code_point(view, i)

\* iterator::operator++()
operator_inc(view, i) ==
    IF i.has_last_error_
    THEN [i |-> [i EXCEPT !.has_last_error_ = FALSE], fed |-> <<>>]
    ELSE try_decode_one_code_point(view, i)

\* iterator::operator==(nothing)
operator_eq(view, i) == i.it_ = end_(view) /\ ~i.has_last_error_

\* The byte values of the ranges a view wraps: ASCII, a continuation byte of
\* each class, an invalid byte, and lead bytes of two, three and four bytes.
ViewBytes == {36, 143, 159, 191, 192, 194, 225, 237, 240, 244}

\* the byte sequences a view wraps
Inputs == UNION {[1..n -> ViewBytes] : n \in 0..MaxLen}

InitView == Fresh /\ view_ \in Inputs /\ pc = "begin"

\* the iterator becomes r.i, having passed the bytes r.fed to decode
SetIterator(r) ==
    /\ it_' = r.i.it_
    /\ decoder_' = r.i.decoder_
    /\ code_' = r.i.code_
    /\ has_last_error_' = r.i.has_last_error_
    /\ bytes' = bytes \o r.fed

\* decode_view::begin(): iterator{begin(view_), end(view_)}
ViewBegin ==
    /\ pc = "begin"
    /\ SetIterator(iterator_decode(view_, [Iterator EXCEPT !.it_ = 1]))
    /\ pc' = "test"
    /\ UNCHANGED <<before, op, ret, fetched, yielded, out, scalars, todo, view_, advances, streamVars>>

\* it != end() holds: the loop body collects *it
ViewDeref ==
    /\ pc = "test"
    /\ ~operator_eq(view_, Iterator)
    /\ out' = Append(out, code_)
    /\ pc' = "inc"
    /\ UNCHANGED <<decoder_, before, bytes, op, ret, fetched, yielded, scalars, todo, viewVars, streamVars>>

\* ++it
ViewAdvance ==
    /\ pc = "inc"
    /\ SetIterator(operator_inc(view_, Iterator))
    /\ advances' = advances + 1
    /\ pc' = "test"
    /\ UNCHANGED <<before, op, ret, fetched, yielded, out, scalars, todo, view_, streamVars>>

\* it == end(): the loop ends
ViewEnd ==
    /\ pc = "test"
    /\ operator_eq(view_, Iterator)
    /\ pc' = "done"
    /\ UNCHANGED <<decoder_, before, bytes, op, ret, fetched, yielded, out, scalars, todo, viewVars, streamVars>>

NextView ==
    \/ ViewBegin
    \/ ViewDeref
    \/ ViewAdvance
    \/ ViewEnd


SpecView == InitView /\ [][NextView]_vars

\* The traversal as a running program: a view is made over a byte sequence
\* and a loop walks it to the end.
InitViewFair == Fresh /\ view_ = <<>> /\ pc = "view"

\* decode_view{r}: the view wraps the range r
ViewWrap ==
    /\ pc = "view"
    /\ view_' \in Inputs
    /\ pc' = "begin"
    /\ UNCHANGED <<decoder_, before, bytes, op, ret, fetched, yielded, out, scalars, todo,
                   it_, code_, has_last_error_, advances, streamVars>>

NextViewFair ==
    \/ ViewWrap
    \/ ViewBegin
    \/ ViewDeref
    \/ ViewAdvance
    \/ ViewEnd

\* The loop is sequential code: as long as it has not left the traversal it
\* goes on to its next position, to the body when it != end() holds.
LoopStep ==
    /\ pc # "done"
    /\ pc' = CASE pc = "view" -> "begin"
              [] pc = "begin" -> "test"
              [] pc = "test" -> IF operator_eq(view_, Iterator) THEN "done" ELSE "inc"
              [] pc = "inc" -> "test"

SpecViewFair == InitViewFair /\ [][NextViewFair]_vars /\ WF_pc(LoopStep)

(***************************************************************************)
(* Well-formed UTF-8 byte sequences (Unicode Standard, table 3-7) and the  *)
(* left-to-right reference decoding built on them.                         *)
(***************************************************************************)
Continuation == 128..191

\* length of the well-formed sequence a lead byte starts, 0 if it starts none
SeqLen(b) ==
    IF b \in 0..127 THEN 1
    ELSE IF b \in 194..223 THEN 2
    ELSE IF b \in 224..239 THEN 3
    ELSE IF b \in 240..244 THEN 4
    ELSE 0

\* the second bytes a lead byte admits
SecondBytes(b) ==
    IF b = 224 THEN 160..191
    ELSE IF b = 237 THEN 128..159
    ELSE IF b = 240 THEN 144..191
    ELSE IF b = 244 THEN 128..143
    ELSE Continuation

\* s is a non-empty prefix of some well-formed sequence
IsPrefix(s) ==
    /\ Len(s) >= 1
    /\ Len(s) <= SeqLen(s[1])
    /\ Len(s) >= 2 => s[2] \in SecondBytes(s[1])
    /\ \A i \in 3..Len(s) : s[i] \in Continuation

IsWellFormed(s) == IsPrefix(s) /\ Len(s) = SeqLen(s[1])

\* the scalar value a well-formed sequence encodes
Scalar(s) ==
    IF Len(s) = 1 THEN s[1]
    ELSE IF Len(s) = 2 THEN (s[1] - 192) * 64 + (s[2] - 128)
    ELSE IF Len(s) = 3 THEN (s[1] - 224) * 4096 + (s[2] - 128) * 64 + (s[3] - 128)
    ELSE (s[1] - 240) * 262144 + (s[2] - 128) * 4096 + (s[3] - 128) * 64 + (s[4] - 128)

\* length of the longest prefix of B that is a prefix of a well-formed sequence
LongestPrefix(B) ==
    LET ks == {k \in 1..Len(B) : IsPrefix(SubSeq(B, 1, k))}
    IN  IF ks = {} THEN 0 ELSE CHOOSE k \in ks : \A j \in ks : j <= k

RECURSIVE RefDecode(_)
RefDecode(B) ==
    IF B = <<>> THEN <<>>
    ELSE LET n == LongestPrefix(B)
         IN  IF n = 0
             THEN <<replacement_char_>> \o RefDecode(Tail(B))
             ELSE IF n = SeqLen(B[1])
             THEN <<Scalar(SubSeq(B, 1, n))>> \o RefDecode(SubSeq(B, n + 1, Len(B)))
             ELSE <<replacement_char_>> \o RefDecode(SubSeq(B, n + 1, Len(B)))

(***************************************************************************)
(* Claims.                                                                 *)
(***************************************************************************)
\* C1: a fresh decoder driven over any byte sequence (decode then fetch on
\* each byte, check_last_error once at the end) outputs the reference
\* decoding: the scalar of each well-formed sequence and one U+FFFD per
\* maximal ill-formed subpart.
C1_DriverMatchesReference ==
    pc = "done" => out = RefDecode(bytes)

\* C1 witness: F4 8F BF interrupted by '$' gave one U+FFFD and then '$'.
C1_Witness ==
    /\ pc = "done"
    /\ bytes = <<244, 143, 191, 36>>
    /\ out = <<replacement_char_, 36>>

\* C2: fed the encoding of a scalar value from state Start, decode returns
\* nothing on every byte but the last and the scalar on the last; the fetch
\* after each byte and the final check_last_error return nothing; so the
\* driver collects exactly the encoded code points.
C2_WellFormedDecodes ==
    /\ (pc = "fetch" /\ op = "decode") =>
           ret = (IF todo = <<>> THEN scalars[Len(scalars)] ELSE Nothing)
    /\ op = "fetch" => ret = Nothing
    /\ op = "check" => ret = Nothing
    /\ pc = "pick" => decoder_.state_ = start
    /\ pc \in {"pick", "done"} => out = scalars

\* C2 witness: U+10FFFF and then the non-character U+FFFE were decoded.
C2_Witness ==
    /\ pc = "done"
    /\ scalars = <<1114111, 65534>>
    /\ out = <<1114111, 65534>>

\* C3: whatever the calls and the bytes, a returned value is a code point
\* of U+0000..U+10FFFF outside the surrogates U+D800..U+DFFF.
C3_ReturnsScalarValues ==
    ret # Nothing => (ret \in 0..1114111 /\ ret \notin 55296..57343)

\* C3 witness: decode returned U+10FFFF, the largest code point.
C3_Witness ==
    /\ op = "decode"
    /\ ret = 1114111
    /\ bytes = <<244, 143, 191, 191>>

\* some unfinished multi-byte sequence ends the bytes B
EndsUnfinished(B) ==
    \E k \in 1..Len(B) :
        LET s == SubSeq(B, Len(B) - k + 1, Len(B))
        IN  IsPrefix(s) /\ Len(s) < SeqLen(s[1])

\* C5: check_last_error returns U+FFFD exactly when the state is not Start,
\* which is exactly when the bytes decoded so far end in an unfinished
\* multi-byte sequence; otherwise it returns nothing.
C5_LastErrorIffUnfinished ==
    op = "check" =>
        /\ ret \in {replacement_char_, Nothing}
        /\ ret = replacement_char_ <=> decoder_.state_ # start
        /\ ret = replacement_char_ <=> EndsUnfinished(bytes)

\* C5 witness: after the single byte C2, check_last_error returned U+FFFD.
C5_Witness ==
    /\ op = "check"
    /\ bytes = <<194>>
    /\ ret = replacement_char_

\* C6: check_last_error changes no field of the decoder (so no later
\* result), and called again at once it returns the same result.
C6_CheckLastErrorIsPure ==
    op = "check" =>
        /\ decoder_ = before
        /\ check_last_error(decoder_).ret = ret

\* C6 witness: check_last_error was called after a fetch in the middle of a
\* four-byte sequence and returned U+FFFD.
C6_Witness ==
    /\ op = "check"
    /\ ret = replacement_char_
    /\ decoder_.state_ = next2
    /\ fetched

\* C7: after a decode, the first fetch returns at most one value and any
\* further fetch returns nothing: one byte yields at most two code points.
C7_AtMostTwoPerByte ==
    /\ Len(yielded) <= 2
    /\ fetched => fetch(decoder_).ret = Nothing

\* C7 witness: one byte yielded two code points and a further fetch nothing.
C7_Witness ==
    /\ op = "fetch"
    /\ ret = Nothing
    /\ Len(yielded) = 2

\* the byte of the last decode call
Arg == bytes[Len(bytes)]

\* the unfinished multi-byte sequence that ends the bytes B
Unfinished(B) ==
    CHOOSE s \in {SubSeq(B, Len(B) - k + 1, Len(B)) : k \in 1..Len(B)} :
        IsPrefix(s) /\ Len(s) < SeqLen(s[1])

\* C8: in state Start, decode returns an ASCII byte itself, returns U+FFFD
\* for 80..BF, C0, C1 and F5..FF, and returns nothing for C2..F4; in the
\* first two cases the state is still Start and fetch returns nothing.
C8_SingleByteAtStart ==
    (op = "decode" /\ before.state_ = start) =>
        /\ Arg \in 0..127 =>
               /\ ret = Arg
               /\ decoder_.state_ = start
               /\ fetch(decoder_).ret = Nothing
        /\ Arg \in (128..193) \cup (245..255) =>
               /\ ret = replacement_char_
               /\ decoder_.state_ = start
               /\ fetch(decoder_).ret = Nothing
        /\ Arg \in 194..244 => ret = Nothing

\* C8 witness: a continuation byte met at Start gave U+FFFD at once.
C8_Witness ==
    /\ op = "decode"
    /\ bytes = <<36, 191>>
    /\ ret = replacement_char_
    /\ decoder_.state_ = start

\* C9: an ASCII byte met in a state Next1..Next7 makes decode return U+FFFD
\* and the following fetch return the byte, and leaves the state Start.
C9_InterruptedByAscii ==
    (op = "decode" /\ before.state_ \in next1..next7 /\ Arg \in 0..127) =>
        /\ ret = replacement_char_
        /\ fetch(decoder_).ret = Arg
        /\ decoder_.state_ = start

\* C9 witness: '$' interrupted F4 8F BF: decode gave U+FFFD, fetch gave '$'.
C9_Witness ==
    /\ op = "fetch"
    /\ bytes = <<244, 143, 191, 36>>
    /\ yielded = <<replacement_char_, 36>>
    /\ decoder_.state_ = start

\* the bytes decoded before the last decode call
Earlier == SubSeq(bytes, 1, Len(bytes) - 1)

\* C10: in a state Next1..Next7, a byte that neither extends the sequence
\* nor is valid on its own (C0, C1, F5..FF, or a continuation byte the
\* sequence does not admit there) makes decode return U+FFFD and the
\* following fetch return a second U+FFFD, and leaves the state Start.
C10_InterruptedByInvalid ==
    (op = "decode" /\ before.state_ \in next1..next7) =>
        /\ EndsUnfinished(Earlier)
        /\ Arg \in Continuation =>
               (next_state(before.state_, char_class(Arg)) = error
                    <=> ~IsPrefix(Append(Unfinished(Earlier), Arg)))
        /\ (\/ Arg \in (192..193) \cup (245..255)
            \/ Arg \in Continuation /\ ~IsPrefix(Append(Unfinished(Earlier), Arg))) =>
               /\ ret = replacement_char_
               /\ fetch(decoder_).ret = replacement_char_
               /\ decoder_.state_ = start

\* C10 witness: BF after ED (a surrogate) gave U+FFFD twice.
C10_Witness ==
    /\ op = "fetch"
    /\ bytes = <<237, 191>>
    /\ yielded = <<replacement_char_, replacement_char_>>
    /\ decoder_.state_ = start

\* what the reference driver collects from a decoder dec over the bytes B:
\* per byte the decode result then the fetch result, at the end the
\* check_last_error result
RECURSIVE DriverRun(_, _)
DriverRun(dec, B) ==
    IF B = <<>> THEN Push(<<>>, check_last_error(dec).ret)
    ELSE LET r == decode(dec, Head(B))
             f == fetch(r.d)
         IN  Push(Push(<<>>, r.ret), f.ret) \o DriverRun(f.d, Tail(B))

\* C4: traversing the decode view of any byte sequence from begin() to end
\* collects exactly what the reference driver collects from a fresh decoder:
\* nothing lost, duplicated or reordered.
C4_ViewMatchesDriver ==
    pc = "done" => out = DriverRun(NewDecoder, view_)

\* C4 witness: over E1 '$' C2 the view gave U+FFFD, '$' (the pending output)
\* and the final U+FFFD.
C4_Witness ==
    /\ pc = "done"
    /\ view_ = <<225, 36, 194>>
    /\ out = <<replacement_char_, 36, replacement_char_>>

\* C11: a lead byte C2..F4 met in a state Next1..Next7 makes decode return
\* U+FFFD and the following fetch return nothing, and leaves the decoder as
\* a fresh decoder is after that byte alone, so that the continuation bytes
\* that follow complete the code point the byte started.
C11_InterruptedByLead ==
    (op = "decode" /\ before.state_ \in next1..next7 /\ Arg \in 194..244) =>
        /\ ret = replacement_char_
        /\ fetch(decoder_).ret = Nothing
        /\ decoder_ = decode(NewDecoder, Arg).d

\* C11 witness: C2 interrupted F4 8F BF and decode returned U+FFFD, the
\* decoder now waiting for the one continuation byte of C2.
C11_Witness ==
    /\ op = "decode"
    /\ bytes = <<244, 143, 191, 194>>
    /\ ret = replacement_char_
    /\ decoder_.state_ = next1

\* C12: the view exposes the U+FFFD of check_last_error only with the byte
\* cursor at the sentinel and only when the input ends in an unfinished
\* sequence, and then as its last element; the advance that follows it only
\* clears has_last_error, consuming no byte, and the iterator then equals
\* end; an input that does not end so reaches end without it; the iterator
\* equals end exactly when the cursor is at the sentinel and has_last_error
\* is false.
C12_TerminalReplacement ==
    /\ [](has_last_error_ =>
              /\ it_ = end_(view_)
              /\ code_ = replacement_char_
              /\ EndsUnfinished(view_))
    /\ []((pc = "done" /\ EndsUnfinished(view_)) =>
              (out # <<>> /\ out[Len(out)] = replacement_char_))
    /\ [][/\ (pc = "inc" /\ has_last_error_) =>
                 /\ ~has_last_error_'
                 /\ it_' = end_(view_)
                 /\ bytes' = bytes
                 /\ decoder_' = decoder_
                 /\ out' = out
          /\ (pc' = "test" /\ ~has_last_error_ /\ ~has_last_error_'
                  /\ it_' = end_(view_)) => ~EndsUnfinished(view_)
          /\ (pc = "test" /\ pc' = "done") => (it_ = end_(view_) /\ ~has_last_error_)
          /\ (pc = "test" /\ pc' = "inc") => ~(it_ = end_(view_) /\ ~has_last_error_)]_vars

\* C12 witness: over '$' C2 the view exposed '$' and the final U+FFFD and,
\* the flag cleared, is at end.
C12_Witness ==
    /\ pc = "done"
    /\ view_ = <<36, 194>>
    /\ out = <<36, replacement_char_>>
    /\ ~has_last_error_

\* C13: for a non-empty input the iterator begin() returns is not equal to
\* end and exposes the first code point of the decoding of the input; for
\* the empty input begin() equals end and nothing is produced.
C13_BeginIsDereferenceable ==
    /\ (pc = "test" /\ out = <<>>) =>
           IF view_ = <<>>
           THEN operator_eq(view_, Iterator)
           ELSE /\ ~operator_eq(view_, Iterator)
                /\ code_ = RefDecode(view_)[1]
    /\ (pc = "done" /\ view_ = <<>>) => out = <<>>

\* C13 witness: over E1 8F, which no code point completes, begin() exposes
\* the final U+FFFD.
C13_Witness ==
    /\ pc = "test"
    /\ out = <<>>
    /\ view_ = <<225, 143>>
    /\ code_ = replacement_char_
    /\ has_last_error_

\* the classes the class table gives the byte values 00..FF
Classes == {char_class(b) : b \in Byte}

\* every byte value is an index into the class table
ByteIndicesInRange == \A b \in Byte : b < Len(char_classes_)

\* the lookups in the row of Start, for every class a byte can have
StartRowInRange == \A t \in Classes : start * num_classes_ + t < Len(fsm_)

\* C14: the stored state is never Error, so for every byte 00..FF the index
\* decode uses into the 256-entry class table and the indices it uses into
\* the 8x12 transition table (from the stored state, and from Start when
\* the byte interrupts) are in range.
C14_LookupsInRange ==
    /\ decoder_.state_ \in start..next7
    /\ ByteIndicesInRange
    /\ \A t \in Classes : decoder_.state_ * num_classes_ + t < Len(fsm_)
    /\ StartRowInRange
    /\ Len(fsm_) = num_fsm_rows_ * num_classes_

\* C14 witness: FF, invalid anywhere, interrupted the sequence F0 began and
\* the stored state is Start.
C14_Witness ==
    /\ op = "decode"
    /\ bytes = <<240, 255>>
    /\ before.state_ = next5
    /\ decoder_.state_ = start

\* the class the byte-range table of the character classes gives a byte
RangeClass(b) ==
    IF b \in 0..127 THEN 0          \* 00-7F
    ELSE IF b \in 128..143 THEN 1   \* 80-8F
    ELSE IF b \in 144..159 THEN 9   \* 90-9F
    ELSE IF b \in 160..191 THEN 7   \* A0-BF
    ELSE IF b \in 192..193 THEN 8   \* C0-C1
    ELSE IF b \in 194..223 THEN 2   \* C2-DF
    ELSE IF b = 224 THEN 10         \* E0
    ELSE IF b \in 225..236 THEN 3   \* E1-EC
    ELSE IF b = 237 THEN 4          \* ED
    ELSE IF b \in 238..239 THEN 3   \* EE-EF
    ELSE IF b = 240 THEN 11         \* F0
    ELSE IF b \in 241..243 THEN 6   \* F1-F3
    ELSE IF b = 244 THEN 5          \* F4
    ELSE 8                          \* F5-FF

\* C15: for every byte value 00..FF the class of the decoder's 256-entry
\* table, as decode looks it up, is the class of the byte-range table.
C15_ClassTableMatchesRanges ==
    /\ \A i \in 1..Len(todo) : char_class(todo[i]) = RangeClass(todo[i])
    /\ \A i \in 1..Len(bytes) : char_class(bytes[i]) = RangeClass(bytes[i])

\* C15 witness: ED, of class 4, was decoded at Start and led to Next4.
C15_Witness ==
    /\ op = "decode"
    /\ bytes = <<237>>
    /\ char_class(bytes[1]) = 4
    /\ decoder_.state_ = next4

\* the last decode call met a byte that the sequence in progress does not admit
Interrupting ==
    /\ before.state_ # start
    /\ next_state(before.state_, char_class(Arg)) = error

\* C16: whenever an output is pending the state is Start and the most
\* recent decode returned U+FFFD; and after a decode that returned nothing,
\* or returned a value without interrupting a sequence in progress, fetch
\* returns nothing.
C16_PendingOnlyAfterInterruption ==
    /\ decoder_.to_deliver_ # nothing =>
           /\ decoder_.state_ = start
           /\ ~fetched
           /\ yielded = <<replacement_char_>>
    /\ (op = "decode" /\ (ret = Nothing \/ ~Interrupting)) =>
           fetch(decoder_).ret = Nothing

\* C16 witness: BF completed ED 9F into U+D7FF, interrupting nothing, and
\* the fetch that followed returned nothing.
C16_Witness ==
    /\ op = "fetch"
    /\ bytes = <<237, 159, 191>>
    /\ yielded = <<55295>>
    /\ ret = Nothing

\* C17: decode first resets the pending slot: what it returns and leaves
\* behind is what it would with nothing pending, and an output left pending
\* by the decode before and not fetched is lost, so that no later fetch
\* returns it.
C17_DecodeResetsPending ==
    op = "decode" =>
        /\ decoder_ = decode([before EXCEPT !.to_deliver_ = nothing], Arg).d
        /\ ret = decode([before EXCEPT !.to_deliver_ = nothing], Arg).ret
        /\ before.to_deliver_ # nothing =>
               /\ decoder_.to_deliver_ = nothing
               /\ fetch(decoder_).ret = Nothing

\* C17 witness: the '$' that interrupted C2 was pending and never fetched
\* when the next '$' was decoded; nothing is pending afterwards.
C17_Witness ==
    /\ op = "decode"
    /\ bytes = <<194, 36, 36>>
    /\ before.to_deliver_ = code_point
    /\ ret = 36
    /\ decoder_.to_deliver_ = nothing

\* C18: fetch changes nothing but the pending slot; with nothing pending,
\* on a fresh decoder too, it returns nothing and leaves the decoder as it
\* was, so that a fetch made right after a fetch changes no later result.
C18_FetchOnlyDrains ==
    /\ op = "fetch" =>
           /\ decoder_.state_ = before.state_
           /\ decoder_.code_ = before.code_
           /\ decoder_.to_deliver_ = nothing
           /\ before.to_deliver_ = nothing => (ret = Nothing /\ decoder_ = before)
           /\ fetch(decoder_) = [d |-> decoder_, ret |-> Nothing]
    /\ op = "new" => fetch(decoder_) = [d |-> decoder_, ret |-> Nothing]

\* C18 witness: a second fetch in a row, made in the middle of the sequence
\* F4 8F, returned nothing and left state and accumulator alone.
C18_Witness ==
    /\ op = "fetch"
    /\ bytes = <<244, 143>>
    /\ before.to_deliver_ = nothing
    /\ ret = Nothing
    /\ decoder_.state_ = next2
    /\ decoder_.code_ = 271

\* C19: during a traversal the bytes passed to decode are the input bytes up
\* to the cursor, each once and in input order, and all of them when the
\* traversal is over; the cursor stays within the range and its sentinel, and
\* is moved only from a position before the sentinel; an advance that finds
\* an output pending exposes it without moving the cursor or decoding a byte.
C19_EveryByteOnceInOrder ==
    /\ [](/\ it_ \in 1..end_(view_)
          /\ Len(bytes) <= Len(view_)
          /\ bytes = SubSeq(view_, 1, Len(bytes))
          /\ pc \in {"test", "inc", "done"} =>
                 Len(bytes) = IF it_ = end_(view_) THEN Len(view_) ELSE it_
          /\ pc = "done" => bytes = view_)
    /\ [][/\ it_' # it_ => (it_ # end_(view_) /\ it_' > it_)
          /\ bytes' = bytes \o SubSeq(view_, Len(bytes) + 1, Len(bytes'))
          /\ (pc = "inc" /\ ~has_last_error_ /\ decoder_.to_deliver_ # nothing) =>
                 /\ it_' = it_
                 /\ bytes' = bytes
                 /\ code_' = fetch(decoder_).ret
                 /\ decoder_' = fetch(decoder_).d]_vars

\* C19 witness: over C2 '$' '$' the advance after the U+FFFD has exposed the
\* pending '$' with the cursor still on the second byte and two bytes decoded.
C19_Witness ==
    /\ pc = "test"
    /\ view_ = <<194, 36, 36>>
    /\ advances = 1
    /\ out = <<replacement_char_>>
    /\ code_ = 36
    /\ it_ = 2
    /\ bytes = <<194, 36>>
    /\ decoder_.to_deliver_ = nothing
\* C20: the traversal of a view over n bytes ends: the iterator comes to
\* equal end, after as many advances as code points were exposed, and no
\* more than n of them.
C20_TraversalTerminates ==
    /\ <>(pc = "done")
    /\ [](/\ advances <= Len(view_)
          /\ Len(out) \in {advances, advances + 1}
          /\ pc = "done" =>
                 /\ operator_eq(view_, Iterator)
                 /\ advances = Len(out))
    /\ [][advances' <= Len(view_)]_vars

\* C20 witness: the traversal of four bytes, each ill-formed alone, is over
\* after four advances and four U+FFFD.
C20_Witness ==
    /\ pc = "done"
    /\ view_ = <<194, 225, 240, 192>>
    /\ advances = 4
    /\ out = <<replacement_char_, replacement_char_, replacement_char_, replacement_char_>>

\* C21 as stated: of any four decode calls in a row one returns a value, and
\* the decoder is never left in the middle of a sequence by more than three
\* bytes in a row.
C21_BoundedResponseAndBusy ==
    /\ quiet <= 3
    /\ busy <= 3

\* C21: of any four decode calls in a row one returns a value: no more than
\* three decode calls in a row return nothing, each of them leaves a
\* sequence in progress, and after three of them only the last byte of a
\* sequence is missing.  (A lead byte that interrupts a sequence returns
\* U+FFFD and leaves the new sequence in progress, so the decoder can be in
\* the middle of a sequence after any number of bytes in a row.)
C21_BoundedResponse ==
    /\ quiet <= 3
    /\ quiet <= busy
    /\ quiet > 0 => decoder_.state_ \in next1..next7
    /\ quiet = 3 => decoder_.state_ = next1
    /\ (op = "decode" /\ ret = Nothing) => quiet > 0
    /\ (op = "decode" /\ ret # Nothing) => quiet = 0

\* C21 witness: three decode calls in a row, from Start, returned nothing
\* (as on F0 90 8F); whatever the next byte is, decode returns a value on it.
C21_Witness ==
    /\ quiet = 3
    /\ busy = 3
    /\ op = "decode"
    /\ decoder_.state_ = next1
    /\ \A b \in Bytes : decode(decoder_, b).ret # Nothing

\* the classes of the bytes that start a code point at Start
StartClasses == {0, 2, 3, 4, 5, 6, 10, 11}

\* the data bits of a lead byte in the UTF-8 format
DataBits(b) ==
    IF b \in 0..127 THEN b
    ELSE IF b \in 194..223 THEN b % 32
    ELSE IF b \in 224..239 THEN b % 16
    ELSE b % 8

\* for every byte value of a start class, the payload is the data bits
PayloadsAreDataBits ==
    \A b \in Byte :
        char_class(b) \in StartClasses =>
            /\ b \in (0..127) \cup (194..244)
            /\ start_byte_payload(b, char_class(b)) = DataBits(b)
            /\ BitAnd(b, ShiftRight(255, char_class(b))) = DataBits(b)

\* C22: the payload of a byte that starts a code point at Start is the data
\* bits of that lead byte, and it is what the accumulator holds after the
\* byte; a byte that continues the sequence in progress makes the
\* accumulator (accumulator << 6) | (byte & 0x3F), that is 64 times its
\* value plus the low six bits of the byte; the accumulator never exceeds
\* 0x10FFFF.
C22_PayloadAndAccumulator ==
    /\ PayloadsAreDataBits
    /\ decoder_.code_ \in 0..1114111
    /\ (op = "decode" /\ before.state_ = start /\ char_class(Arg) \in StartClasses) =>
           decoder_.code_ = DataBits(Arg)
    /\ (op = "decode" /\ before.state_ # start /\ ~Interrupting) =>
           /\ Arg \in Continuation
           /\ decoder_.code_ = (before.code_ * 64) + (Arg % 64)

\* C22 witness: BF, the last byte of F4 8F BF BF, took the accumulator from
\* 0x43FF to 0x10FFFF.
C22_Witness ==
    /\ op = "decode"
    /\ bytes = <<244, 143, 191, 191>>
    /\ before.code_ = 17407
    /\ decoder_.code_ = 1114111

\* C23: throughout a traversal, whenever has_last_error_ is set the cursor
\* is at the sentinel, the code point exposed is U+FFFD and the decoder in
\* the iterator is not in state Start; whenever the iterator equals end that
\* decoder has nothing pending.
C23_FlagAndEndInvariants ==
    /\ has_last_error_ =>
           /\ it_ = end_(view_)
           /\ code_ = replacement_char_
           /\ decoder_.state_ # start
    /\ operator_eq(view_, Iterator) => decoder_.to_deliver_ = nothing

\* C23 witness: over C2 '$' F0 the traversal exposes the final U+FFFD with
\* the decoder left in the sequence F0 began; the '$' that was pending
\* after the first U+FFFD has been fetched on the way.
C23_Witness ==
    /\ view_ = <<194, 36, 240>>
    /\ pc = "inc"
    /\ has_last_error_
    /\ out = <<replacement_char_, 36, replacement_char_>>
    /\ decoder_.state_ = next5
    /\ decoder_.to_deliver_ = nothing
\* C24: a second decoder made fresh while the first is in state Start,
\* whatever calls the first has had, and fed the same bytes from then on is
\* in the same FSM state as the first; decode returns the same on both and
\* leaves the same output pending, check_last_error returns the same, and
\* the accumulator of a sequence in progress is the same in both: nothing of
\* the accumulator the earlier bytes left in the first shows.
C24_HistoryIndependentAtStart ==
    /\ decoder_.state_ = other.state_
    /\ op = "decode" => (ret = other_ret /\ fetch(decoder_).ret = fetch(other).ret)
    /\ check_last_error(decoder_).ret = check_last_error(other).ret
    /\ decoder_.state_ # start => decoder_.code_ = other.code_

\* C24 witness: the first decoder has 0xD7FF, of ED 9F BF, left in its
\* accumulator, the second, made after that, has 0; an invalid byte decoded
\* by both left them in Start and returned U+FFFD on both.
C24_Witness ==
    /\ op = "decode"
    /\ before.state_ = start
    /\ decoder_.state_ = start
    /\ decoder_.code_ = 55295
    /\ other.code_ = 0
    /\ ret = replacement_char_
    /\ other_ret = replacement_char_

\* the states other than Error that one byte leads to from the states S
AfterOneByte(S) == {next_state(s, t) : s \in S, t \in Classes} \ {error}

\* n plus the least number of further bytes that lead from a state of S to
\* Start without an error, -1 if no run of bytes does
RECURSIVE ToStart(_, _)
ToStart(S, n) ==
    IF start \in S THEN n
    ELSE IF S = {} \/ n > num_fsm_rows_ THEN -1
    ELSE ToStart(AfterOneByte(S), n + 1)

\* for each state in progress, the length of the shortest run of bytes
\* that leads from it to Start without an error
ShortestRun == [s \in next1..next7 |-> ToStart(AfterOneByte({s}), 1)]

\* the number of continuation bytes a state in progress waits for
Expected(s) ==
    IF s = next1 THEN 1
    ELSE IF s \in {next2, next3, next4} THEN 2
    ELSE 3

\* C25 as stated: from Next_k the shortest run of bytes that leads back to
\* Start without an error has length k (next_k is the number k).
C25_NextKExpectsK ==
    decoder_.state_ \in next1..next7 =>
        ShortestRun[decoder_.state_] = decoder_.state_ - start

\* C25: from a state in progress the shortest run of bytes that leads back
\* to Start without an error has a length the state fixes: 1 from Next1, 2
\* from Next2, Next3 and Next4, 3 from Next5, Next6 and Next7; a byte that
\* continues the sequence leaves one byte less to come.
C25_NextKExpectsFixedCount ==
    /\ decoder_.state_ \in next1..next7 =>
           ShortestRun[decoder_.state_] = Expected(decoder_.state_)
    /\ (op = "decode" /\ before.state_ # start /\ ~Interrupting) =>
           Expected(before.state_) =
               IF decoder_.state_ = start THEN 1 ELSE Expected(decoder_.state_) + 1

\* C25 witness: after E0 the decoder was in Next3, and the two bytes BF 8F
\* brought it back to Start with U+0FCF.
C25_Witness ==
    /\ op = "decode"
    /\ bytes = <<224, 191, 143>>
    /\ ShortestRun[next3] = 2
    /\ before.state_ = next1
    /\ decoder_.state_ = start
    /\ ret = 4047

====
